---- MODULE Spec2Model ----
(***************************************************************************)
(* Model of CustomAgent (src/examples/custom_agent.py): a tabular          *)
(* epsilon-greedy agent with a JSON configuration file.                    *)
(*                                                                         *)
(* Numbers.  Python floats are modelled as exact fixed-point integers: the *)
(* integer Unit stands for 0.1.  learning_rate is the fraction num/den.    *)
(* Unit is a power of two at least 2^MaxUpdates, so every product          *)
(* learning_rate * x the model computes is exact (see ExactArithmetic).    *)
(*                                                                         *)
(* Objects.  A Python dict is [keys |-> insertion order, val |-> mapping]. *)
(* Behaviour mappings live in a heap, because the agent stores the         *)
(* caller's mapping object itself (line 48) and json.load makes a new one  *)
(* (line 69).                                                              *)
(*                                                                         *)
(* Agents.  The caller holds one CustomAgent at a time: constructing an    *)
(* agent replaces the one before it, whose mappings the caller still owns. *)
(* load_config is a public method: besides __init__, the caller may call   *)
(* it on the agent at any time.                                            *)
(*                                                                         *)
(* Storage.  There is one storage location; reads and writes of it do not  *)
(* fail.  Lines 86-87 of the source are not Python statements; the body of *)
(* save_config is modelled from its Python statements (lines 85, 88-99).   *)
(***************************************************************************)
EXTENDS Integers, Sequences, FiniteSets, TLC

\* ------------------------------------------------------------------ bounds
MaxUpdates == 2      \* update_learning steps explored in one behaviour
MaxSeq == 2          \* longest state_sequence / largest num_iterations
MaxAgents == 2       \* agents constructed in one behaviour

RECURSIVE Pow2(_)
Pow2(n) == IF n = 0 THEN 1 ELSE 2 * Pow2(n - 1)

Unit == Pow2(MaxUpdates)          \* fixed-point image of the float 0.1

\* ------------------------------------------------------------ input domains
Ids == {"id1", "id2"}                      \* agent_id arguments
CallerObjs == {"m1", "m2"}                 \* mapping objects the caller owns
LoadedObj == "j"                           \* the dict json.load makes for the agent
Objs == CallerObjs \cup {LoadedObj}
ActionArgs == {"a", "x"}                   \* action arguments; "x" is in no initial mapping
RewardArgs == {4 * Unit}                   \* reward argument 0.4
Half == [num |-> 1, den |-> 2]
One == [num |-> 1, den |-> 1]
\* (learning_rate, exploration_rate) arguments: (0.5, 0.0) and (1.0, 0.5);
\* exploration_rate and random.random() are counted in halves
Policies == {[learning_rate |-> Half, exploration_rate |-> 0],
             [learning_rate |-> One, exploration_rate |-> 1]}
RandomDraws == {0, 1}                      \* random.random() 0.0 and 0.5, in halves
Noise == {0 - Unit, Unit}                  \* random.uniform(-0.1, 0.1)
RawStates == {[t |-> "str", s |-> "1"], [t |-> "int", s |-> "1"]}
                                           \* caller states: the text "1" and the integer 1

\* --------------------------------------------------------------- Python dict
EmptyMap == [k \in {} |-> 0]
EmptyDict == [keys |-> <<>>, val |-> EmptyMap]

Range(s) == {s[k] : k \in 1..Len(s)}

DictKeys(d) == d.keys

DictHas(d, k) == k \in DOMAIN d.val

DictGet(d, k, default) == IF k \in DOMAIN d.val THEN d.val[k] ELSE default

\* f with f[k] = v
MapPut(f, k, v) == [j \in (DOMAIN f) \cup {k} |-> IF j = k THEN v ELSE f[j]]

\* d[k] = v: a new key goes to the end of the insertion order
DictSet(d, k, v) ==
    [keys |-> IF k \in DOMAIN d.val THEN d.keys ELSE Append(d.keys, k),
     val |-> MapPut(d.val, k, v)]

\* a row that starts every action at 0.1
ZeroRow_StartsAtUnit(keys) == [keys |-> keys, val |-> [k \in Range(keys) |-> Unit]]

\* {b: 0.0 for b in keys}
ZeroRow(keys) == [keys |-> keys, val |-> [k \in Range(keys) |-> 0]]

\* Python dict equality: same keys with equal values, order ignored
DictEq(d, e) == d.val = e.val

\* str(state)
Str(state) == state.s

\* learning_rate * x
Mul(lr, x) == (lr.num * x) \div lr.den



\* ------------------------------------------------------------------- state
VARIABLES
    heap,         \* mapping object -> dict of behaviour weights
    agent,        \* fields of the CustomAgent the caller holds
    file,         \* content of the storage location config_path
    last,         \* the latest call, with its arguments and what it returned
    lastSaved,    \* what the agent that wrote the file held when it wrote it
    nUpdates,     \* update_learning steps taken so far
    nAgents       \* agents constructed so far

vars == <<heap, agent, file, last, lastSaved, nUpdates, nAgents>>

\* current_state: <<>> is None, <<k>> is the key k
None == <<>>

\* before any __init__ has run
Unconstructed ==
    [alive |-> FALSE, agent_id |-> "", behaviors |-> "m1", learning_rate |-> One,
     exploration_rate |-> 0, experience |-> EmptyMap, current_state |-> None,
     total_rewards |-> 0]

World(h, a, f) == [heap |-> h, agent |-> a, file |-> f]

\* self.behaviors
Behaviors(w) == w.heap[w.agent.behaviors]

\* --------------------------------------------------------------- storage
NoDoc == EmptyMap
Absent == [kind |-> "absent", doc |-> NoDoc]       \* os.path.exists is False
Garbage == [kind |-> "garbage", doc |-> NoDoc]     \* json.load raises
JsonList == [kind |-> "list", doc |-> NoDoc]       \* valid JSON, not an object
JsonObject(doc) == [kind |-> "dict", doc |-> doc]

\* the config dict of save_config as json.dump writes it and json.load reads
\* it back: string keys, numbers, nested objects in their order
Encode(agent_id, behaviors, experience, total_rewards) ==
    JsonObject([key \in {"agent_id", "behaviors", "experience", "total_rewards", "timestamp"} |->
                   CASE key = "agent_id" -> agent_id
                     [] key = "behaviors" -> behaviors
                     [] key = "experience" -> experience
                     [] key = "total_rewards" -> total_rewards
                     [] key = "timestamp" -> "now"])

\* a lookup that never finds the stored value
ConfigGet_AlwaysDefault(doc, key, default) == default

\* config.get(key, default)
ConfigGet(doc, key, default) == IF key \in DOMAIN doc THEN doc[key] ELSE default

\* a test that accepts the record of any identity
IdentityMatches_AnyIdentity(doc, agent_id) == "agent_id" \in DOMAIN doc

\* config.get('agent_id') == self.agent_id
IdentityMatches(doc, agent_id) == "agent_id" \in DOMAIN doc /\ doc["agent_id"] = agent_id

\* a hand-written record of another identity, and one holding only an agent_id
ForeignRecord ==
    Encode("id3", [keys |-> <<"b">>, val |-> [k \in {"b"} |-> 7 * Unit]],
           [k \in {"s2"} |-> [keys |-> <<"b">>, val |-> [j \in {"b"} |-> Unit]]], 9 * Unit)

BareRecord == JsonObject([key \in {"agent_id"} |-> "id1"])

InitialFiles == {Absent, Garbage, JsonList, ForeignRecord, BareRecord}

\* ------------------------------------------------------------- operations
\* load_config, lines 60-79
load_config(w) ==
    LET ag == w.agent
        doc == w.file.doc
    IN  IF w.file.kind # "dict" THEN w
        ELSE IF ~IdentityMatches(doc, ag.agent_id) THEN w
        ELSE LET fromFile == "behaviors" \in DOMAIN doc
                 ref == IF fromFile THEN LoadedObj ELSE ag.behaviors
                 h == IF fromFile THEN MapPut(w.heap, ref, doc["behaviors"]) ELSE w.heap
             IN  World(h,
                       [ag EXCEPT !.behaviors = ref,
                                  !.experience = ConfigGet(doc, "experience", EmptyMap),
                                  !.total_rewards = ConfigGet(doc, "total_rewards", 0)],
                       w.file)

\* the fields __init__ sets before it loads, lines 47-54
Fresh(agent_id, behaviors, learning_rate, exploration_rate) ==
    [alive |-> TRUE, agent_id |-> agent_id, behaviors |-> behaviors,
     learning_rate |-> learning_rate, exploration_rate |-> exploration_rate,
     experience |-> EmptyMap, current_state |-> None, total_rewards |-> 0]

\* an __init__ that keeps a copy of the mapping it is given
init_CopiesMapping(w, agent_id, behaviors, learning_rate, exploration_rate) ==
    load_config(World(MapPut(w.heap, LoadedObj, w.heap[behaviors]),
                      Fresh(agent_id, LoadedObj, learning_rate, exploration_rate),
                      w.file))

\* __init__, lines 47-58
init(w, agent_id, behaviors, learning_rate, exploration_rate) ==
    load_config(World(w.heap,
                      Fresh(agent_id, behaviors, learning_rate, exploration_rate),
                      w.file))

\* save_config, lines 81-99
save_config(w) ==
    World(w.heap, w.agent,
          Encode(w.agent.agent_id, Behaviors(w), w.agent.experience, w.agent.total_rewards))

\* a set_state that starts the row of its state afresh on every call
set_state_ResetsRow(w, state) ==
    LET ag == w.agent
        key == Str(state)
    IN  World(w.heap,
              [ag EXCEPT !.current_state = <<key>>,
                         !.experience = MapPut(@, key, ZeroRow(DictKeys(Behaviors(w))))],
              w.file)

\* a set_state that forgets every row but the current one
set_state_KeepsOneRow(w, state) ==
    LET ag == w.agent
        key == Str(state)
        row == IF key \in DOMAIN ag.experience THEN ag.experience[key]
               ELSE ZeroRow(DictKeys(Behaviors(w)))
    IN  World(w.heap,
              [ag EXCEPT !.current_state = <<key>>, !.experience = MapPut(EmptyMap, key, row)],
              w.file)

\* set_state, lines 101-111
set_state(w, state) ==
    LET ag == w.agent
        key == Str(state)
        exp == IF key \in DOMAIN ag.experience THEN ag.experience
               ELSE MapPut(ag.experience, key, ZeroRow(DictKeys(Behaviors(w))))
    IN  World(w.heap, [ag EXCEPT !.current_state = <<key>>, !.experience = exp], w.file)

\* max(d, key=d.get) on a non-empty dict: the first key, in insertion order,
\* whose value no other key's value exceeds
MaxKey(d) ==
    LET best == CHOOSE n \in 1..Len(d.keys) :
                    /\ \A m \in 1..Len(d.keys) : d.val[d.keys[m]] <= d.val[d.keys[n]]
                    /\ \A m \in 1..(n - 1) : d.val[d.keys[m]] < d.val[d.keys[n]]
    IN  d.keys[best]

Returned(action) == [raised |-> FALSE, action |-> action]
Raised == [raised |-> TRUE, action |-> ""]

\* random.choice(list(self.behaviors.keys())): IndexError on an empty list
random_choice(keys) ==
    IF keys = <<>> THEN {Raised} ELSE {Returned(keys[n]) : n \in 1..Len(keys)}

\* the exploit branch of choose_action, lines 129-130: ValueError on an empty row
exploit(w) ==
    LET ag == w.agent
        key == ag.current_state[1]
        state_experience == IF key \in DOMAIN ag.experience THEN ag.experience[key]
                            ELSE ZeroRow(DictKeys(Behaviors(w)))
    IN  IF state_experience.keys = <<>> THEN Raised
        ELSE Returned(MaxKey(state_experience))

\* choose_action, lines 113-132: the set of its possible outcomes
choose_action(w) ==
    IF w.agent.current_state = None THEN random_choice(DictKeys(Behaviors(w)))
    ELSE UNION {IF r < w.agent.exploration_rate
                THEN random_choice(DictKeys(Behaviors(w)))
                ELSE {exploit(w)} : r \in RandomDraws}

\* perform_action, lines 134-154: the set of rewards it can return
perform_action(w, action) ==
    {DictGet(Behaviors(w), action, 0) + noise : noise \in Noise}

\* the assignments of update_learning, lines 169-176
apply_update(w, action, reward) ==
    LET ag == w.agent
        key == ag.current_state[1]
        current_value == DictGet(ag.experience[key], action, 0)
        new_value == current_value + Mul(ag.learning_rate, reward - current_value)
        weight == DictGet(Behaviors(w), action, 0) + Mul(ag.learning_rate, reward)
    IN  World(MapPut(w.heap, ag.behaviors, DictSet(Behaviors(w), action, weight)),
              [ag EXCEPT !.experience = MapPut(@, key, DictSet(@[key], action, new_value)),
                         !.total_rewards = @ + reward],
              w.file)

\* an update that counts the reward before it looks at the current state
update_learning_CountsFirst(w, action, reward) ==
    IF w.agent.current_state = None
    THEN World(w.heap, [w.agent EXCEPT !.total_rewards = @ + reward], w.file)
    ELSE IF w.agent.current_state[1] \notin DOMAIN w.agent.experience THEN w
    ELSE apply_update(w, action, reward)

\* update_learning, lines 156-180; a missing row is a KeyError at line 170,
\* caught at line 179 before anything is assigned
update_learning(w, action, reward) ==
    IF w.agent.current_state = None THEN w
    ELSE IF w.agent.current_state[1] \notin DOMAIN w.agent.experience THEN w
    ELSE apply_update(w, action, reward)

\* f"state_{i}" for i in range(num_iterations)
Placeholders(num_iterations) ==
    [n \in 1..num_iterations |->
        [t |-> "str",
         s |-> "state_" \o (<<"0", "1", "2", "3", "4", "5", "6", "7", "8", "9">>)[n]]]

\* line 194; state_sequence is <<>> for None and <<list>> for a list
Iterations(num_iterations, state_sequence) ==
    IF state_sequence # <<>> /\ state_sequence[1] # <<>>
    THEN state_sequence[1] ELSE Placeholders(num_iterations)

\* the try block of evolve, lines 196-212: the set of its outcomes, each with
\* the world reached, the history built and whether save_config was called
RECURSIVE evolve_loop(_, _, _)
evolve_loop(w, iterations, history) ==
    IF iterations = <<>>
    THEN {[w |-> save_config(w), history |-> history, saved |-> TRUE]}
    ELSE LET state == Head(iterations)
             w1 == set_state(w, state)
         IN  UNION {IF c.raised
                    THEN {[w |-> w1, history |-> history, saved |-> FALSE]}
                    ELSE UNION {LET w2 == update_learning(w1, c.action, reward)
                                IN  evolve_loop(w2, Tail(iterations),
                                        Append(history,
                                               [state |-> state, action |-> c.action,
                                                reward |-> reward,
                                                total_rewards |-> w2.agent.total_rewards]))
                                : reward \in perform_action(w1, c.action)}
                    : c \in choose_action(w1)}

\* evolve, lines 182-213
evolve(w, num_iterations, state_sequence) ==
    evolve_loop(w, Iterations(num_iterations, state_sequence), <<>>)

\* get_summary, lines 215-229; 'behaviors' is the mapping object itself
get_summary(w) ==
    [agent_id |-> w.agent.agent_id, behaviors |-> w.agent.behaviors,
     total_rewards |-> w.agent.total_rewards,
     exploration_rate |-> w.agent.exploration_rate,
     learning_rate |-> w.agent.learning_rate,
     experience_states |-> Cardinality(DOMAIN w.agent.experience)]

\* ------------------------------------------------------------ the program
\* the two mappings the caller builds: {'a': 0.5, 'b': 0.3} and {}
InitialHeap ==
    [o \in Objs |->
        IF o = "m1"
        THEN [keys |-> <<"a", "b">>,
              val |-> [k \in {"a", "b"} |-> IF k = "a" THEN 5 * Unit ELSE 3 * Unit]]
        ELSE EmptyDict]

NoCall ==
    [op |-> "", state |-> <<>>, action |-> "", reward |-> 0, raised |-> FALSE,
     saved |-> FALSE, history |-> <<>>, num_iterations |-> 0, state_sequence |-> <<>>,
     summary |-> <<>>, init |-> <<>>]

Init ==
    /\ heap = InitialHeap
    /\ agent = Unconstructed
    /\ file \in InitialFiles
    /\ last = NoCall
    /\ lastSaved = <<>>
    /\ nUpdates = 0
    /\ nAgents = 0

Now == World(heap, agent, file)

Becomes(w) == heap' = w.heap /\ agent' = w.agent /\ file' = w.file

\* what the agent holds of the fields save_config writes
Held(w) ==
    <<[agent_id |-> w.agent.agent_id, behaviors |-> Behaviors(w),
       experience |-> w.agent.experience, total_rewards |-> w.agent.total_rewards]>>

\* agent = CustomAgent(agent_id, behaviors, learning_rate, exploration_rate)
Construct ==
    /\ nAgents < MaxAgents
    /\ \E agent_id \in Ids, behaviors \in CallerObjs, policy \in Policies :
          /\ Becomes(init(Now, agent_id, behaviors, policy.learning_rate,
                          policy.exploration_rate))
          /\ last' = [NoCall EXCEPT !.op = "init",
                                    !.init = <<[agent_id |-> agent_id, behaviors |-> behaviors,
                                                learning_rate |-> policy.learning_rate,
                                                exploration_rate |-> policy.exploration_rate]>>]
    /\ nAgents' = nAgents + 1
    /\ UNCHANGED <<lastSaved, nUpdates>>

\* agent.load_config(), called by the caller on the agent it holds
LoadConfig ==
    /\ agent.alive
    /\ Becomes(load_config(Now))
    /\ last' = [NoCall EXCEPT !.op = "load_config"]
    /\ UNCHANGED <<lastSaved, nUpdates, nAgents>>

SaveConfig ==
    /\ agent.alive
    /\ Becomes(save_config(Now))
    /\ last' = [NoCall EXCEPT !.op = "save_config", !.saved = TRUE]
    /\ lastSaved' = Held(Now)
    /\ UNCHANGED <<nUpdates, nAgents>>

SetState ==
    /\ agent.alive
    /\ \E state \in RawStates :
          /\ Becomes(set_state(Now, state))
          /\ last' = [NoCall EXCEPT !.op = "set_state", !.state = <<state>>]
    /\ UNCHANGED <<lastSaved, nUpdates, nAgents>>

\* a choose_action that stores the defaulted row it reads
ChooseAction_StoresRow ==
    /\ agent.alive
    /\ \E c \in choose_action(Now) :
          last' = [NoCall EXCEPT !.op = "choose_action", !.action = c.action,
                                 !.raised = c.raised]
    /\ agent' = IF agent.current_state # None
                    /\ agent.current_state[1] \notin DOMAIN agent.experience
                 THEN [agent EXCEPT !.experience =
                          MapPut(@, agent.current_state[1], ZeroRow(DictKeys(Behaviors(Now))))]
                 ELSE agent
    /\ UNCHANGED <<heap, file, lastSaved, nUpdates, nAgents>>

ChooseAction ==
    /\ agent.alive
    /\ \E c \in choose_action(Now) :
          last' = [NoCall EXCEPT !.op = "choose_action", !.action = c.action,
                                 !.raised = c.raised]
    /\ UNCHANGED <<heap, agent, file, lastSaved, nUpdates, nAgents>>

PerformAction ==
    /\ agent.alive
    /\ \E action \in ActionArgs :
          \E reward \in perform_action(Now, action) :
              last' = [NoCall EXCEPT !.op = "perform_action", !.action = action,
                                     !.reward = reward]
    /\ UNCHANGED <<heap, agent, file, lastSaved, nUpdates, nAgents>>

UpdateLearning ==
    /\ agent.alive
    /\ nUpdates < MaxUpdates
    /\ \E action \in ActionArgs, reward \in RewardArgs :
          /\ Becomes(update_learning(Now, action, reward))
          /\ last' = [NoCall EXCEPT !.op = "update_learning", !.action = action,
                                    !.reward = reward]
    /\ nUpdates' = nUpdates + 1
    /\ UNCHANGED <<lastSaved, nAgents>>

\* the state_sequence arguments: None, or a list of at most MaxSeq states
StateSequences ==
    {<<>>} \cup {<<seq>> : seq \in UNION {[1..n -> RawStates] : n \in 0..MaxSeq}}

Evolve ==
    /\ agent.alive
    /\ \E num_iterations \in 0..MaxSeq, state_sequence \in StateSequences :
          /\ nUpdates + Len(Iterations(num_iterations, state_sequence)) <= MaxUpdates
          /\ \E out \in evolve(Now, num_iterations, state_sequence) :
                /\ Becomes(out.w)
                /\ last' = [NoCall EXCEPT !.op = "evolve",
                                          !.num_iterations = num_iterations,
                                          !.state_sequence = state_sequence,
                                          !.history = out.history,
                                          !.saved = out.saved]
                /\ lastSaved' = IF out.saved THEN Held(out.w) ELSE lastSaved
                /\ nUpdates' = nUpdates + Len(out.history)
    /\ UNCHANGED nAgents

GetSummary ==
    /\ agent.alive
    /\ last' = [NoCall EXCEPT !.op = "get_summary", !.summary = <<get_summary(Now)>>]
    /\ UNCHANGED <<heap, agent, file, lastSaved, nUpdates, nAgents>>

Next ==
    \/ Construct
    \/ LoadConfig
    \/ SaveConfig
    \/ SetState
    \/ ChooseAction
    \/ PerformAction
    \/ UpdateLearning
    \/ Evolve
    \/ GetSummary

Spec == Init /\ [][Next]_vars

\* every product learning_rate * x is exact: all stored numbers are multiples
\* of Unit / 2^nUpdates
ExactArithmetic ==
    LET grain == Unit \div Pow2(nUpdates)
    IN  /\ \A o \in Objs : \A k \in DOMAIN heap[o].val : heap[o].val[k] % grain = 0
        /\ agent.total_rewards % grain = 0
        /\ \A s \in DOMAIN agent.experience :
              \A k \in DOMAIN agent.experience[s].val :
                  agent.experience[s].val[k] % grain = 0

\* ------------------------------------------------------------------ claims
\* the row of the current state, as line 129 reads it
CurrentRow ==
    IF agent.current_state[1] \in DOMAIN agent.experience
    THEN agent.experience[agent.current_state[1]]
    ELSE ZeroRow(DictKeys(Behaviors(Now)))

\* C1: every row of the value table has an entry for every action that is
\* currently a key of behaviors.
C1_RowsCoverActions ==
    agent.alive =>
        \A s \in DOMAIN agent.experience :
            DOMAIN Behaviors(Now).val \subseteq DOMAIN agent.experience[s].val

\* C2: no call on an agent, other than a load, adds an action to the key set
\* of its behaviors or removes one.
C2_ActionSetFixed ==
    [][(agent.alive /\ nAgents' = nAgents /\ last'.op # "load_config") =>
           DOMAIN heap'[agent'.behaviors].val = DOMAIN heap[agent.behaviors].val]_vars

\* C3: no public operation raises: every call returns normally.
C3_NoErrorEscapes == ~last.raised

\* C4: an agent constructed with the identity of the agent that last saved
\* holds that agent's behaviors, value table and cumulative reward as they
\* were at the save, and its own learning_rate and exploration_rate.
C4_RoundTrip ==
    (last.op = "init" /\ lastSaved # <<>> /\ agent.agent_id = lastSaved[1].agent_id) =>
        /\ Behaviors(Now) = lastSaved[1].behaviors
        /\ agent.experience = lastSaved[1].experience
        /\ agent.total_rewards = lastSaved[1].total_rewards
        /\ agent.learning_rate = last.init[1].learning_rate
        /\ agent.exploration_rate = last.init[1].exploration_rate

\* an agent of the saver's identity was constructed after a save that followed
\* updates, from a mapping and a policy other than what the saver held
C4_Witness ==
    /\ last.op = "init" /\ lastSaved # <<>> /\ agent.agent_id = lastSaved[1].agent_id
    /\ lastSaved[1].total_rewards # 0
    /\ lastSaved[1].experience # EmptyMap
    /\ heap[last.init[1].behaviors] # lastSaved[1].behaviors
    /\ agent.learning_rate = One

\* the storage location holds a record with the identity agent_id
MatchingRecord(f, agent_id) ==
    f.kind = "dict" /\ "agent_id" \in DOMAIN f.doc /\ f.doc["agent_id"] = agent_id

\* C5: constructing an agent when the storage location is absent, unparsable,
\* not a record, or a record of another identity leaves the agent with its
\* constructor defaults and the mapping it was given; a later load_config
\* call over such a location changes nothing.
C5_LoadKeepsDefaults ==
    [][/\ (last'.op = "init" /\ ~MatchingRecord(file, agent'.agent_id)) =>
              /\ agent' = [alive |-> TRUE, agent_id |-> last'.init[1].agent_id,
                           behaviors |-> last'.init[1].behaviors,
                           learning_rate |-> last'.init[1].learning_rate,
                           exploration_rate |-> last'.init[1].exploration_rate,
                           experience |-> EmptyMap, current_state |-> None,
                           total_rewards |-> 0]
              /\ heap' = heap
              /\ file' = file
       /\ (last'.op = "load_config" /\ ~MatchingRecord(file, agent.agent_id)) =>
              heap' = heap /\ agent' = agent /\ file' = file]_vars

\* an agent was constructed while the location held a record of another identity
C5_Witness ==
    last.op = "init" /\ file.kind = "dict" /\ ~MatchingRecord(file, agent.agent_id)

\* C6: with exploration_rate 0 and a current state set, choose_action returns
\* an action whose value in the current state's row is the row's maximum.
C6_GreedyReturnsMax ==
    (last.op = "choose_action" /\ agent.exploration_rate = 0 /\ agent.current_state # None) =>
        /\ ~last.raised
        /\ last.action \in DOMAIN CurrentRow.val
        /\ \A k \in DOMAIN CurrentRow.val : CurrentRow.val[k] <= CurrentRow.val[last.action]

\* C7: every evolve call calls save_config before it returns.
C7_EvolveAlwaysSaves == last.op = "evolve" => last.saved

\* C8: evolve given a list of k states returns k records, the i-th carrying
\* the i-th state (stated here for the calls in which no step failed).
C8_OneRecordPerState ==
    (last.op = "evolve" /\ last.state_sequence # <<>> /\ last.saved) =>
        /\ Len(last.history) = Len(last.state_sequence[1])
        /\ \A n \in 1..Len(last.history) : last.history[n].state = last.state_sequence[1][n]

\* C9: update_learning(action, reward) with a current state s writes
\* old + learning_rate * (reward - old) into entry (s, action), adds
\* learning_rate * reward to behaviors[action] (0 if absent), and changes no
\* other entry of the value table and no other weight.
C9_UpdateRule ==
    [][(last'.op = "update_learning" /\ agent.current_state # None) =>
           LET s == agent.current_state[1]
               a == last'.action
               r == last'.reward
               lr == agent.learning_rate
               old == IF a \in DOMAIN CurrentRow.val THEN CurrentRow.val[a] ELSE 0
               w == IF a \in DOMAIN heap[agent.behaviors].val
                    THEN heap[agent.behaviors].val[a] ELSE 0
               beh == heap[agent.behaviors].val
               beh2 == heap'[agent'.behaviors].val
           IN  /\ s \in DOMAIN agent.experience
               /\ agent'.behaviors = agent.behaviors
               /\ DOMAIN agent'.experience = DOMAIN agent.experience
               /\ \A t \in DOMAIN agent.experience :
                     /\ DOMAIN agent'.experience[t].val =
                            DOMAIN agent.experience[t].val \cup (IF t = s THEN {a} ELSE {})
                     /\ \A k \in DOMAIN agent.experience[t].val :
                            (t # s \/ k # a) =>
                                agent'.experience[t].val[k] = agent.experience[t].val[k]
               /\ lr.den * (agent'.experience[s].val[a] - old) = lr.num * (r - old)
               /\ DOMAIN beh2 = DOMAIN beh \cup {a}
               /\ \A k \in DOMAIN beh : k # a => beh2[k] = beh[k]
               /\ lr.den * (beh2[a] - w) = lr.num * r]_vars

\* a second update was made with learning_rate 0.5 and a current state set
C9_Witness ==
    /\ last.op = "update_learning" /\ agent.current_state # None
    /\ nUpdates = 2 /\ agent.learning_rate = Half
    /\ last.action \in DOMAIN CurrentRow.val

\* C10: update_learning with no current state set changes nothing and
\* returns normally.
C10_NoStateNoUpdate ==
    [][(last'.op = "update_learning" /\ agent.current_state = None) =>
           heap' = heap /\ agent' = agent /\ file' = file /\ ~last'.raised]_vars

\* update_learning was called on an agent with no current state
C10_Witness == last.op = "update_learning" /\ agent.alive /\ agent.current_state = None

\* C11: whenever a current state is set, the value table has a row for it.
C11_CurrentRowPresent ==
    (agent.alive /\ agent.current_state # None) =>
        agent.current_state[1] \in DOMAIN agent.experience

\* C12: the cumulative reward is a running total.  Construction and load set
\* it; from then on every update_learning call made with a current state set
\* adds its reward, every record of evolve carries the total right after its
\* step, and no other call changes it.
C12_RunningTotal ==
    [][LET op == last'.op
           h == last'.history
       IN  /\ op = "update_learning" =>
                  agent'.total_rewards =
                      agent.total_rewards +
                          (IF agent.current_state # None THEN last'.reward ELSE 0)
           /\ op = "evolve" =>
                  /\ \A n \in 1..Len(h) :
                         h[n].total_rewards =
                             (IF n = 1 THEN agent.total_rewards ELSE h[n - 1].total_rewards)
                                 + h[n].reward
                  /\ agent'.total_rewards =
                         IF h = <<>> THEN agent.total_rewards ELSE h[Len(h)].total_rewards
           /\ op \in {"save_config", "set_state", "choose_action", "perform_action",
                      "get_summary"} =>
                  agent'.total_rewards = agent.total_rewards]_vars

\* the calls under which the value table is said to grow only
GrowingOps ==
    {"set_state", "choose_action", "perform_action", "update_learning", "evolve",
     "save_config", "get_summary"}

\* C13: across every set_state, choose_action, perform_action,
\* update_learning, evolve, save_config and get_summary call, every state key
\* and every (state, action) entry of the value table is still there after it.
C13_TableGrows ==
    [][(agent.alive /\ last'.op \in GrowingOps) =>
           /\ DOMAIN agent.experience \subseteq DOMAIN agent'.experience
           /\ \A t \in DOMAIN agent.experience :
                  DOMAIN agent.experience[t].val \subseteq DOMAIN agent'.experience[t].val]_vars

\* a set_state call created a second row beside a row that holds a learned value
C13_Witness ==
    /\ last.op = "set_state"
    /\ Cardinality(DOMAIN agent.experience) >= 2
    /\ \E t \in DOMAIN agent.experience \ {agent.current_state[1]} :
           \E k \in DOMAIN agent.experience[t].val : agent.experience[t].val[k] # 0

\* C14: set_state for a key that already has a row leaves every row, the
\* behaviors and the cumulative reward as they were, and calling it once more
\* with the same state changes nothing.
C14_SetStateIdempotent ==
    [][(last'.op = "set_state" /\ Str(last'.state[1]) \in DOMAIN agent.experience) =>
           /\ agent'.experience = agent.experience
           /\ heap' = heap
           /\ agent'.total_rewards = agent.total_rewards
           /\ agent'.current_state = <<Str(last'.state[1])>>
           /\ set_state(World(heap', agent', file'), last'.state[1]) =
                  World(heap', agent', file')]_vars

\* set_state was called for a state whose row holds a learned value
C14_Witness ==
    /\ last.op = "set_state"
    /\ agent.current_state[1] \in DOMAIN agent.experience
    /\ \E k \in DOMAIN CurrentRow.val : CurrentRow.val[k] # 0

\* C15: set_state for a key with no row creates a row whose keys are the
\* current keys of behaviors, every value 0.0, and leaves the other rows,
\* the behaviors and the cumulative reward as they were.
C15_NewRowZeroed ==
    [][(last'.op = "set_state" /\ Str(last'.state[1]) \notin DOMAIN agent.experience) =>
           LET key == Str(last'.state[1])
           IN  /\ DOMAIN agent'.experience = DOMAIN agent.experience \cup {key}
               /\ DOMAIN agent'.experience[key].val = DOMAIN heap[agent.behaviors].val
               /\ \A k \in DOMAIN agent'.experience[key].val :
                      agent'.experience[key].val[k] = 0
               /\ \A t \in DOMAIN agent.experience :
                      agent'.experience[t] = agent.experience[t]
               /\ heap' = heap
               /\ agent'.total_rewards = agent.total_rewards]_vars

\* set_state created a row after an update had added the action "x" to the
\* behaviors: the new row has "x", at 0
C15_Witness ==
    /\ last.op = "set_state"
    /\ agent.current_state[1] \in DOMAIN agent.experience
    /\ "x" \in DOMAIN CurrentRow.val
    /\ CurrentRow.val["x"] = 0

\* C16: choose_action, perform_action and get_summary change nothing the agent
\* holds: behaviors, value table, cumulative reward, current state and rates
\* are the same after the call, whether or not the current state has a row.
C16_PureReads ==
    [][(last'.op \in {"choose_action", "perform_action", "get_summary"}) =>
           heap' = heap /\ agent' = agent /\ file' = file]_vars

\* choose_action returned an action while the current state had no row
C16_Witness ==
    /\ last.op = "choose_action" /\ ~last.raised
    /\ agent.current_state # None
    /\ agent.current_state[1] \notin DOMAIN agent.experience

\* C17: an update_learning(a, r) call made with a current state set moves the
\* row's value for a toward r: the distance to r after the call is
\* (1 - learning_rate) times the distance before it, on the same side of r.
C17_MovesTowardReward ==
    [][(last'.op = "update_learning" /\ agent.current_state # None) =>
           LET s == agent.current_state[1]
               a == last'.action
               r == last'.reward
               lr == agent.learning_rate
               old == IF a \in DOMAIN CurrentRow.val THEN CurrentRow.val[a] ELSE 0
           IN  /\ s \in DOMAIN agent'.experience
               /\ a \in DOMAIN agent'.experience[s].val
               /\ lr.den * (r - agent'.experience[s].val[a]) = (lr.den - lr.num) * (r - old)]_vars

\* C18: the keys of every row of the value table are keys of behaviors, and
\* every choose_action call returns an action that is a key of behaviors.
C18_RowKeysAreActions ==
    agent.alive =>
        /\ \A t \in DOMAIN agent.experience :
               DOMAIN agent.experience[t].val \subseteq DOMAIN Behaviors(Now).val
        /\ last.op = "choose_action" =>
               (~last.raised /\ last.action \in DOMAIN Behaviors(Now).val)

\* C19: the agent holds the caller's mapping object itself.  An agent
\* constructed without a record that carries behaviors holds the object it
\* was given, with the weights that object has by then; only a load changes
\* which object the agent holds; update_learning writes into that object
\* and no other; get_summary returns that object.
C19_MappingByReference ==
    [][LET op == last'.op
       IN  /\ (op = "init" /\ ~(MatchingRecord(file, agent'.agent_id)
                                 /\ "behaviors" \in DOMAIN file.doc)) =>
                  /\ agent'.behaviors = last'.init[1].behaviors
                  /\ heap' = heap
           /\ (agent.alive /\ op \notin {"init", "load_config"}) =>
                  agent'.behaviors = agent.behaviors
           /\ (op = "update_learning" /\ agent.current_state # None
                   /\ agent.current_state[1] \in DOMAIN agent.experience) =>
                  /\ last'.action \in DOMAIN heap'[agent.behaviors].val
                  /\ heap'[agent.behaviors] # heap[agent.behaviors]
                  /\ \A o \in Objs \ {agent.behaviors} : heap'[o] = heap[o]
           /\ op = "get_summary" => last'.summary[1].behaviors = agent.behaviors]_vars

\* a second agent was constructed from the mapping object through which the
\* first agent had updated weights, and holds the updated weights
C19_Witness ==
    /\ last.op = "init" /\ nAgents = 2
    /\ agent.behaviors = "m1" /\ last.init[1].behaviors = "m1"
    /\ heap["m1"] # InitialHeap["m1"]

====
